---- MODULE Spec2Model ----
(***************************************************************************)
(* Model of the JoyLoc location tracker: the App component (state town,    *)
(* status, error, refs watchId and lastPosition, callbacks                 *)
(* handleLocationUpdate and handleLocationError, the mount effect and its  *)
(* cleanup) and the resolver getTownFromCoordinates of geminiService.ts.   *)
(*                                                                         *)
(* Coordinates are integers counting half-thresholds (0.00005 degree) from *)
(* a base point, so the 0.0001 degree threshold of the significance filter *)
(* is 2 units and the grid holds deltas below, at and above the threshold. *)
(* On such a grid the comparisons of the double differences with 0.0001    *)
(* agree with the integer comparisons made here.                           *)
(* A call of getTownFromCoordinates is in flight from the call at the      *)
(* await of handleLocationUpdate until the continuation after the await    *)
(* runs; each callback and each continuation is one step of the event loop.*)
(* Strings returned by the upstream API are sequences of characters.       *)
(***************************************************************************)
EXTENDS Integers, Sequences, FiniteSets, TLC

\* ---------------------------------------------------------------- bounds
\* number of fixes the watcher delivers in one run
MaxFixes == 3
\* length of an upstream response text
MaxLen == 1

\* ------------------------------------------------------------- constants
\* 0.0001 degree, in units of 0.00005 degree
Threshold == 2

\* the fixes the watcher can deliver, as <<latitude, longitude>>: latitude
\* deltas below, at and above the threshold, a move in longitude only, and
\* a move below the threshold on both axes
Coordinates == {<<0, 0>>, <<1, 0>>, <<2, 0>>, <<4, 0>>, <<0, 3>>, <<1, 1>>}

IDLE == "IDLE"
LOCATING == "LOCATING"
GEOCODING == "GEOCODING"
SUCCESS == "SUCCESS"
ERROR == "ERROR"
StatusValues == {IDLE, LOCATING, GEOCODING, SUCCESS, ERROR}

\* a nullable value is a sequence: empty for null, one element otherwise
NULL == <<>>
Some(v) == <<v>>
Val(o) == o[1]

MsgLookupFailed == "Impossible de determiner la ville. L'API est peut-etre occupee."
MsgUnknown == "Une erreur de localisation inconnue est survenue."
MsgPermissionDenied == "Acces a la localisation refuse. Veuillez l'activer dans les parametres de votre navigateur."
MsgPositionUnavailable == "Les informations de localisation ne sont pas disponibles."
MsgTimeout == "La demande de localisation de l'utilisateur a expire."
MsgUnsupported == "La geolocalisation n'est pas prise en charge par votre navigateur."

\* GeolocationPositionError codes; OTHER stands for any code outside the three
ErrorCodes == {"PERMISSION_DENIED", "POSITION_UNAVAILABLE", "TIMEOUT", "OTHER"}

\* characters of an upstream response: whitespace, the two markdown
\* characters the resolver strips (asterisk and backtick, the latter written
\* "BT" here), and a letter
STAR == "*"
BACKTICK == "BT"
Chars == {" ", STAR, BACKTICK, "L"}

VARIABLES
    apiKey,        \* process.env.API_KEY is set
    geolocation,   \* navigator.geolocation exists
    pc,            \* "load", "failed", "idle", "watching", "unsupported", "unmounted"
    town,
    status,
    error,
    watchId,
    lastPosition,
    inflight,      \* resolver calls awaited by handleLocationUpdate, not yet settled
    issued,        \* history: every resolver call made, in order
    fixes,         \* history: every fix the watcher delivered, in order
    lastSettled    \* history: id of the request whose settlement wrote
                   \* status, town and error last, 0 before the first

vars == <<apiKey, geolocation, pc, town, status, error, watchId, lastPosition,
          inflight, issued, fixes, lastSettled>>

\* ------------------------------------------------------- pure functions
Abs(x) == IF x < 0 THEN -x ELSE x

\* the early return with the comparisons written <= : a fix exactly one
\* threshold away is dropped
Insignificant_Inclusive(last, latitude, longitude) ==
    /\ last # NULL
    /\ Abs(Val(last).lat - latitude) <= Threshold
    /\ Abs(Val(last).lon - longitude) <= Threshold

\* the early return with || written for && : a fix is dropped as soon as
\* one axis is within the threshold
Insignificant_AnyAxis(last, latitude, longitude) ==
    /\ last # NULL
    /\ \/ Abs(Val(last).lat - latitude) < Threshold
       \/ Abs(Val(last).lon - longitude) < Threshold

\* the condition of the early return of handleLocationUpdate
Insignificant(last, latitude, longitude) ==
    /\ last # NULL
    /\ Abs(Val(last).lat - latitude) < Threshold
    /\ Abs(Val(last).lon - longitude) < Threshold

RECURSIVE TrimStart(_)
TrimStart(s) ==
    IF s # <<>> /\ Head(s) = " " THEN TrimStart(Tail(s)) ELSE s

RECURSIVE TrimEnd(_)
TrimEnd(s) ==
    IF s # <<>> /\ s[Len(s)] = " " THEN TrimEnd(SubSeq(s, 1, Len(s) - 1)) ELSE s

\* String.prototype.trim
Trim(s) == TrimEnd(TrimStart(s))

\* townName.replace(/[BT*]/g, '')
StripMarkdown(s) == SelectSeq(s, LAMBDA c : c \notin {BACKTICK, STAR})

RECURSIVE TextsOfLen(_)
TextsOfLen(n) ==
    IF n = 0 THEN {<<>>}
    ELSE {Append(t, c) : t \in TextsOfLen(n - 1), c \in Chars}

Texts == UNION {TextsOfLen(n) : n \in 0..MaxLen}

\* what generateContent produces: a rejection, or a response with a text
Responses == {[ok |-> FALSE, text |-> <<>>]} \cup {[ok |-> TRUE, text |-> t] : t \in Texts}

\* the outcome of getTownFromCoordinates for an upstream response
getTownFromCoordinates(resp) ==
    IF ~resp.ok THEN [ok |-> FALSE, name |-> <<>>]
    ELSE LET townName == Trim(resp.text)
         IN IF townName = <<>> THEN [ok |-> FALSE, name |-> <<>>]
            ELSE [ok |-> TRUE, name |-> StripMarkdown(townName)]

\* every way the awaited call of handleLocationUpdate can settle
Outcomes == {getTownFromCoordinates(resp) : resp \in Responses}

\* the switch with the break of the POSITION_UNAVAILABLE case missing: it
\* falls through to the TIMEOUT case
errorMessage_FallThrough(code) ==
    CASE code = "PERMISSION_DENIED" -> MsgPermissionDenied
      [] code = "POSITION_UNAVAILABLE" -> MsgTimeout
      [] code = "TIMEOUT" -> MsgTimeout
      [] OTHER -> MsgUnknown

\* the switch of handleLocationError
errorMessage(code) ==
    CASE code = "PERMISSION_DENIED" -> MsgPermissionDenied
      [] code = "POSITION_UNAVAILABLE" -> MsgPositionUnavailable
      [] code = "TIMEOUT" -> MsgTimeout
      [] OTHER -> MsgUnknown

\* ------------------------------------------------------------------ Init
Init ==
    /\ apiKey \in BOOLEAN
    /\ geolocation \in BOOLEAN
    /\ pc = "load"
    /\ town = NULL
    /\ status = IDLE
    /\ error = NULL
    /\ watchId = NULL
    /\ lastPosition = NULL
    /\ inflight = {}
    /\ issued = <<>>
    /\ fixes = <<>>
    /\ lastSettled = 0

\* --------------------------------------------------------------- actions
\* module initialisation without the check of the key
LoadModule_NoCheck ==
    /\ pc = "load"
    /\ pc' = "idle"
    /\ UNCHANGED <<apiKey, geolocation, town, status, error, watchId,
                   lastPosition, inflight, issued, fixes, lastSettled>>

\* module initialisation of geminiService.ts, then the first render of App
LoadModule ==
    /\ pc = "load"
    /\ pc' = IF apiKey THEN "idle" ELSE "failed"
    /\ UNCHANGED <<apiKey, geolocation, town, status, error, watchId,
                   lastPosition, inflight, issued, fixes, lastSettled>>

\* the mount effect without the return of the unsupported branch: it goes
\* on to LOCATING and to the registration of the watch
useEffect_NoReturn ==
    /\ pc = "idle"
    /\ error' = IF ~geolocation THEN Some(MsgUnsupported) ELSE error
    /\ status' = LOCATING
    /\ watchId' = Some(1)
    /\ pc' = "watching"
    /\ UNCHANGED <<apiKey, geolocation, town, lastPosition, inflight, issued, fixes, lastSettled>>

\* the mount effect
useEffect ==
    /\ pc = "idle"
    /\ IF ~geolocation
       THEN /\ error' = Some(MsgUnsupported)
            /\ status' = ERROR
            /\ pc' = "unsupported"
            /\ UNCHANGED watchId
       ELSE /\ status' = LOCATING
            /\ watchId' = Some(1)
            /\ pc' = "watching"
            /\ UNCHANGED error
    /\ UNCHANGED <<apiKey, geolocation, town, lastPosition, inflight, issued, fixes, lastSettled>>

\* acceptFix with a setError(null) added next to setStatus(GEOCODING)
acceptFix_ClearsError(latitude, longitude) ==
    /\ lastPosition' = Some([lat |-> latitude, lon |-> longitude])
    /\ status' = GEOCODING
    /\ LET req == [id |-> Len(issued) + 1, lat |-> latitude, lon |-> longitude]
       IN /\ issued' = Append(issued, req)
          /\ inflight' = inflight \cup {req}
    /\ error' = NULL

\* acceptFix with setStatus(LOCATING) written for setStatus(GEOCODING)
acceptFix_Locating(latitude, longitude) ==
    /\ lastPosition' = Some([lat |-> latitude, lon |-> longitude])
    /\ status' = LOCATING
    /\ LET req == [id |-> Len(issued) + 1, lat |-> latitude, lon |-> longitude]
       IN /\ issued' = Append(issued, req)
          /\ inflight' = inflight \cup {req}
    /\ UNCHANGED error

\* handleLocationUpdate past the filter: the fix becomes the last accepted
\* coordinate, status goes to GEOCODING and the resolver is called
acceptFix(latitude, longitude) ==
    /\ lastPosition' = Some([lat |-> latitude, lon |-> longitude])
    /\ status' = GEOCODING
    /\ LET req == [id |-> Len(issued) + 1, lat |-> latitude, lon |-> longitude]
       IN /\ issued' = Append(issued, req)
          /\ inflight' = inflight \cup {req}
    /\ UNCHANGED error

\* handleLocationUpdate without its early return: every fix is accepted
handleLocationUpdate_NoFilter(latitude, longitude) ==
    /\ fixes' = Append(fixes, [lat |-> latitude, lon |-> longitude])
    /\ acceptFix(latitude, longitude)
    /\ UNCHANGED <<apiKey, geolocation, pc, town, watchId, lastSettled>>

\* the synchronous part of handleLocationUpdate, up to the await
handleLocationUpdate(latitude, longitude) ==
    /\ fixes' = Append(fixes, [lat |-> latitude, lon |-> longitude])
    /\ IF Insignificant(lastPosition, latitude, longitude)
       THEN UNCHANGED <<lastPosition, status, inflight, issued, error>>
       ELSE acceptFix(latitude, longitude)
    /\ UNCHANGED <<apiKey, geolocation, pc, town, watchId, lastSettled>>

\* the watcher delivers a fix
WatcherFix ==
    /\ pc = "watching"
    /\ Len(fixes) < MaxFixes
    /\ \E c \in Coordinates : handleLocationUpdate(c[1], c[2])

handleLocationError(code) ==
    /\ error' = Some(errorMessage(code))
    /\ status' = ERROR
    /\ UNCHANGED <<apiKey, geolocation, pc, town, watchId, lastPosition,
                   inflight, issued, fixes, lastSettled>>

\* the watcher delivers an error
WatcherError ==
    /\ pc = "watching"
    /\ \E code \in ErrorCodes : handleLocationError(code)

\* the try body without setError(null)
resolveSucceeded_KeepsError(newTown) ==
    /\ town' = Some(newTown)
    /\ status' = SUCCESS
    /\ UNCHANGED <<error, lastPosition>>

\* the try body without setStatus(SUCCESS)
resolveSucceeded_KeepsStatus(newTown) ==
    /\ town' = Some(newTown)
    /\ error' = NULL
    /\ UNCHANGED <<status, lastPosition>>

\* the try body of handleLocationUpdate after the await
resolveSucceeded(newTown) ==
    /\ town' = Some(newTown)
    /\ status' = SUCCESS
    /\ error' = NULL
    /\ UNCHANGED lastPosition

\* the catch body with a setTown(null) added
resolveFailed_ClearsTown ==
    /\ error' = Some(MsgLookupFailed)
    /\ status' = ERROR
    /\ town' = NULL
    /\ UNCHANGED lastPosition

\* the catch body resetting lastPosition.current so that the next fix retries
resolveFailed_RollsBack ==
    /\ error' = Some(MsgLookupFailed)
    /\ status' = ERROR
    /\ lastPosition' = NULL
    /\ UNCHANGED town

\* the catch body of handleLocationUpdate
resolveFailed ==
    /\ error' = Some(MsgLookupFailed)
    /\ status' = ERROR
    /\ UNCHANGED <<town, lastPosition>>

\* the continuation with a sequence check added: the settlement of a
\* request older than the last one issued is discarded
Settle_DiscardsStale(req, outcome) ==
    /\ req \in inflight
    /\ inflight' = inflight \ {req}
    /\ IF pc = "unmounted" \/ req.id # Len(issued)
       THEN UNCHANGED <<town, status, error, lastPosition, lastSettled>>
       ELSE /\ IF outcome.ok
               THEN resolveSucceeded(outcome.name)
               ELSE resolveFailed
            /\ lastSettled' = req.id
    /\ UNCHANGED <<apiKey, geolocation, pc, watchId, issued, fixes>>

\* the continuation with setters that still write after the unmount
Settle_WritesAfterUnmount(req, outcome) ==
    /\ req \in inflight
    /\ inflight' = inflight \ {req}
    /\ IF outcome.ok
       THEN resolveSucceeded(outcome.name)
       ELSE resolveFailed
    /\ lastSettled' = req.id
    /\ UNCHANGED <<apiKey, geolocation, pc, watchId, issued, fixes>>

\* the continuation of handleLocationUpdate when the awaited call settles.
\* The setters of an unmounted component write nothing.
Settle(req, outcome) ==
    /\ req \in inflight
    /\ inflight' = inflight \ {req}
    /\ IF pc = "unmounted"
       THEN UNCHANGED <<town, status, error, lastPosition, lastSettled>>
       ELSE /\ IF outcome.ok
               THEN resolveSucceeded(outcome.name)
               ELSE resolveFailed
            /\ lastSettled' = req.id
    /\ UNCHANGED <<apiKey, geolocation, pc, watchId, issued, fixes>>

ResolverSettles ==
    \E req \in inflight, outcome \in Outcomes : Settle(req, outcome)

\* the component unmounts: the cleanup of the mount effect, if it returned one
Unmount ==
    /\ pc \in {"watching", "unsupported"}
    /\ pc' = "unmounted"
    /\ UNCHANGED <<apiKey, geolocation, town, status, error, watchId,
                   lastPosition, inflight, issued, fixes, lastSettled>>

Next ==
    \/ LoadModule
    \/ useEffect
    \/ WatcherFix
    \/ WatcherError
    \/ ResolverSettles
    \/ Unmount

Spec == Init /\ [][Next]_vars

\* the component stays mounted and every pending resolver call settles
NextMounted ==
    \/ LoadModule
    \/ useEffect
    \/ WatcherFix
    \/ WatcherError
    \/ ResolverSettles

SpecMounted == Init /\ [][NextMounted]_vars /\ WF_vars(ResolverSettles)

\* ------------------------------------------------------- claim helpers
\* a step in which the watcher delivered a fix, and that fix
FixDelivered == Len(fixes') = Len(fixes) + 1
Delivered == fixes'[Len(fixes')]

\* the fix b is at least one threshold away from the coordinate a on an axis
FarFrom(a, b) ==
    \/ Abs(b.lat - a.lat) >= Threshold
    \/ Abs(b.lon - a.lon) >= Threshold

Range(seq) == {seq[i] : i \in DOMAIN seq}

\* the fixes of a history that pass the significance filter, each compared
\* with the one accepted before it
RECURSIVE Accepted(_)
Accepted(history) ==
    IF history = <<>> THEN <<>>
    ELSE LET before == Accepted(SubSeq(history, 1, Len(history) - 1))
             b == history[Len(history)]
         IN IF before = <<>> \/ FarFrom(before[Len(before)], b)
            THEN Append(before, b)
            ELSE before

\* steps of the controller, by the handler that ran
ResolverSucceeds ==
    \E req \in inflight, outcome \in Outcomes :
        outcome.ok /\ pc # "unmounted" /\ Settle(req, outcome)
ResolverFails ==
    \E req \in inflight, outcome \in Outcomes :
        ~outcome.ok /\ pc # "unmounted" /\ Settle(req, outcome)
Unsupported == useEffect /\ ~geolocation

\* ---------------------------------------------------------------- claims
\* C1: a fix delivered while the watch is active, when no coordinate has
\* been accepted yet or when it is at least 0.0001 degree away from the last
\* accepted coordinate on some axis, is accepted in any status: status
\* becomes GEOCODING, the fix becomes the last accepted coordinate and
\* exactly one resolver request is issued, carrying the fix's coordinates.
C1_SignificantFixAccepted ==
    [][(FixDelivered /\ (lastPosition = NULL \/ FarFrom(Val(lastPosition), Delivered)))
         => /\ status' = GEOCODING
            /\ lastPosition' = Some(Delivered)
            /\ Len(issued') = Len(issued) + 1
            /\ SubSeq(issued', 1, Len(issued)) = issued
            /\ issued'[Len(issued')].lat = Delivered.lat
            /\ issued'[Len(issued')].lon = Delivered.lon
            /\ inflight \subseteq inflight'
            /\ inflight' \ inflight = {issued'[Len(issued')]}
            /\ issued'[Len(issued')] \notin inflight]_vars

\* a fix exactly one threshold away in latitude was accepted after a town
\* had been resolved
C1_Witness ==
    /\ Len(fixes) >= 2
    /\ Abs(fixes[Len(fixes)].lat - fixes[Len(fixes) - 1].lat) = Threshold
    /\ fixes[Len(fixes)].lon = fixes[Len(fixes) - 1].lon
    /\ Len(issued) = Len(fixes)
    /\ lastPosition = Some(fixes[Len(fixes)])
    /\ status = GEOCODING
    /\ town # NULL

\* C2: a fix less than 0.0001 degree away from the last accepted coordinate
\* on both axes is rejected and changes nothing: no request, and status,
\* town, error and the last accepted coordinate stay as they were.
C2_InsignificantFixDropped ==
    [][(FixDelivered /\ lastPosition # NULL /\ ~FarFrom(Val(lastPosition), Delivered))
         => UNCHANGED <<status, town, error, lastPosition, inflight, issued>>]_vars

\* a fix was dropped and the last accepted coordinate is still the earlier
\* one, not the dropped fix
C2_Witness ==
    /\ Len(fixes) >= 2
    /\ Len(issued) = 1
    /\ lastPosition = Some(fixes[1])
    /\ fixes[Len(fixes)] # fixes[1]


\* C3 as stated: at most one resolver request is in flight in every state.
C3_AtMostOneInFlight == Cardinality(inflight) <= 1

\* C3 amended: the requests in flight are requests issued by
\* handleLocationUpdate and not yet settled, at most one per accepted fix;
\* a step adds at most one.  Their number is not bounded by one.
C3_InFlightPerAcceptedFix ==
    /\ [](/\ inflight \subseteq Range(issued)
          /\ Cardinality(inflight) <= Len(Accepted(fixes)))
    /\ [][Cardinality(inflight') <= Cardinality(inflight) + 1]_vars

\* two requests are in flight: the second fix was accepted while the first
\* lookup was pending
C3_Witness ==
    /\ Cardinality(inflight) = 2
    /\ Len(issued) = 2

\* C4: before teardown, a resolver request settling with name n leaves
\* status = SUCCESS, town = n and error = null, whatever they were before.
C4_SuccessWrites ==
    [][\A req \in inflight, outcome \in Outcomes :
          (outcome.ok /\ pc # "unmounted" /\ Settle(req, outcome))
            => /\ status' = SUCCESS
               /\ town' = Some(outcome.name)
               /\ error' = NULL]_vars

\* both requests issued have settled, the last one with a name
C4_Witness ==
    /\ status = SUCCESS
    /\ town = Some(<<"L">>)
    /\ error = NULL
    /\ Len(issued) = 2
    /\ inflight = {}

C6_WatcherErrorWrites ==
    /\ [](Cardinality({MsgPermissionDenied, MsgPositionUnavailable,
                       MsgTimeout, MsgUnknown}) = 4)
    /\ [][\A code \in ErrorCodes :
            (pc = "watching" /\ handleLocationError(code))
              => /\ status' = ERROR
                 /\ code = "PERMISSION_DENIED" => error' = Some(MsgPermissionDenied)
                 /\ code = "POSITION_UNAVAILABLE" => error' = Some(MsgPositionUnavailable)
                 /\ code = "TIMEOUT" => error' = Some(MsgTimeout)
                 /\ code = "OTHER" => error' = Some(MsgUnknown)
                 /\ UNCHANGED <<town, lastPosition, inflight>>]_vars

\* a position-unavailable error arrived with a town resolved and a request
\* in flight
C6_Witness ==
    /\ status = ERROR
    /\ error = Some(MsgPositionUnavailable)
    /\ town # NULL
    /\ inflight # {}

\* C7: town changes only in a step where a resolver request settles with a
\* name; fixes, watcher errors, the unsupported path and resolver failures
\* leave it unchanged.
C7_TownOnlyOnSuccess ==
    [][(town' # town) => ResolverSucceeds]_vars

\* a town resolved earlier is still there after a failed lookup of a later
\* fix
C7_Witness ==
    /\ town # NULL
    /\ status = ERROR
    /\ error = Some(MsgLookupFailed)
    /\ Len(issued) >= 2
    /\ inflight = {}

\* C8 as stated: error is set to a message only by a watcher error or a
\* resolver failure, is cleared only by a resolver success, and a fix never
\* changes it.
C8_ErrorWriters ==
    [][/\ (error' # error /\ error' # NULL)
            => (WatcherError \/ ResolverFails)
       /\ (error' # error /\ error' = NULL) => ResolverSucceeds
       /\ FixDelivered => error' = error]_vars

\* C8 amended: error is set to a message only by a watcher error, a
\* resolver failure or the unsupported path of the mount effect.
C8_ErrorWritersWithUnsupported ==
    [][/\ (error' # error /\ error' # NULL)
            => (WatcherError \/ ResolverFails \/ Unsupported)
       /\ (error' # error /\ error' = NULL) => ResolverSucceeds
       /\ FixDelivered => error' = error]_vars

\* a fix was accepted after a watcher error: the message is still set while
\* the lookup is pending
C8_Witness ==
    /\ status = GEOCODING
    /\ error = Some(MsgTimeout)
    /\ inflight # {}

\* C9: the last accepted coordinate is the most recent fix that passed the
\* filter, null iff none did, whether the request issued for it is pending,
\* succeeded or failed.
C9_LastPositionIsLastAccepted ==
    LET accepted == Accepted(fixes)
    IN /\ (lastPosition = NULL) <=> (accepted = <<>>)
       /\ accepted # <<>> => lastPosition = Some(accepted[Len(accepted)])

\* the lookup for the last accepted coordinate failed and the coordinate is
\* kept; a later fix had been dropped
C9_Witness ==
    /\ lastPosition = Some([lat |-> 1, lon |-> 1])
    /\ status = ERROR
    /\ error = Some(MsgLookupFailed)
    /\ inflight = {}
    /\ Len(fixes) > Len(issued)

\* C10: the requests issued are the fixes accepted by the filter, one
\* request per accepted fix in order and none otherwise; the fixes
\* (45.0000, 4.8000), (45.00005, 4.8000), (45.0002, 4.8000) issue two.
C10_OneRequestPerAcceptedFix ==
    LET accepted == Accepted(fixes)
    IN /\ Len(issued) = Len(accepted)
       /\ \A i \in DOMAIN issued :
             /\ issued[i].lat = accepted[i].lat
             /\ issued[i].lon = accepted[i].lon
       /\ fixes = <<[lat |-> 0, lon |-> 0], [lat |-> 1, lon |-> 0],
                    [lat |-> 4, lon |-> 0]>>
             => Len(issued) = 2

\* the three fixes of the scenario were delivered, with a watcher error
\* among them, and two requests were issued
C10_Witness ==
    /\ fixes = <<[lat |-> 0, lon |-> 0], [lat |-> 1, lon |-> 0],
                 [lat |-> 4, lon |-> 0]>>
    /\ Len(issued) = 2
    /\ issued[2].lat = 4
    /\ error = Some(MsgPermissionDenied)

C12_AcceptedOnlyBeyondThreshold ==
    [][(FixDelivered /\ lastPosition # NULL /\ Len(issued') = Len(issued) + 1)
         => \/ Abs(Delivered.lat - Val(lastPosition).lat) > Threshold
            \/ Abs(Delivered.lon - Val(lastPosition).lon) > Threshold]_vars

\* C12 amended: such a fix is accepted only if its latitude or longitude
\* differs by at least the threshold; the comparison is per axis, so a fix
\* moving in longitude only, by more than the threshold, is accepted.
C12_AcceptedOnlyFromThreshold ==
    [][(FixDelivered /\ lastPosition # NULL)
         => /\ (Len(issued') = Len(issued) + 1)
                  => \/ Abs(Delivered.lat - Val(lastPosition).lat) >= Threshold
                     \/ Abs(Delivered.lon - Val(lastPosition).lon) >= Threshold
            /\ (/\ Delivered.lat = Val(lastPosition).lat
                /\ Abs(Delivered.lon - Val(lastPosition).lon) > Threshold)
                  => /\ Len(issued') = Len(issued) + 1
                     /\ lastPosition' = Some(Delivered)]_vars

\* a fix that moved in longitude only was accepted
C12_Witness ==
    /\ Len(fixes) >= 2
    /\ fixes[Len(fixes)].lat = fixes[Len(fixes) - 1].lat
    /\ Abs(fixes[Len(fixes)].lon - fixes[Len(fixes) - 1].lon) > Threshold
    /\ Len(issued) = Len(fixes)
    /\ lastPosition = Some(fixes[Len(fixes)])

\* C13: without geolocation support status goes from IDLE to ERROR with the
\* unsupported-browser message at the mount and stays there: it is never
\* LOCATING, no watch is registered, no fix is delivered and no request is
\* issued.
C13_UnsupportedIsFinal ==
    ~geolocation
      => /\ pc # "watching"
         /\ watchId = NULL
         /\ fixes = <<>>
         /\ issued = <<>>
         /\ inflight = {}
         /\ town = NULL
         /\ pc \in {"load", "idle", "failed"} => (status = IDLE /\ error = NULL)
         /\ pc \in {"unsupported", "unmounted"}
               => (status = ERROR /\ error = Some(MsgUnsupported))

\* the mount effect ran on a host without geolocation
C13_Witness ==
    /\ ~geolocation
    /\ pc = "unsupported"
    /\ status = ERROR
    /\ error = Some(MsgUnsupported)

\* C14: without the API key the initialisation of the resolver module
\* throws: the component never mounts, no request is issued, and status and
\* error keep their initial values.
C14_MissingKeyIsFatal ==
    ~apiKey
      => /\ pc \in {"load", "failed"}
         /\ issued = <<>>
         /\ inflight = {}
         /\ status = IDLE
         /\ error = NULL
         /\ town = NULL
         /\ watchId = NULL

\* the module initialisation threw
C14_Witness ==
    /\ ~apiKey
    /\ pc = "failed"

\* the status edges of C15 as stated
C15_StatedEdges ==
    {<<IDLE, LOCATING>>, <<IDLE, ERROR>>, <<LOCATING, GEOCODING>>,
     <<LOCATING, ERROR>>, <<GEOCODING, SUCCESS>>, <<GEOCODING, ERROR>>,
     <<SUCCESS, GEOCODING>>, <<ERROR, GEOCODING>>}

\* C15 as stated: every change of status follows one of the stated edges.
C15_StatusEdges ==
    [][status' # status => <<status, status'>> \in C15_StatedEdges]_vars

\* C15 amended: every change of status follows one of the stated edges or
\* SUCCESS -> ERROR or ERROR -> SUCCESS; SUCCESS is entered only when a
\* request settles with a name, and status never returns to IDLE or LOCATING.
C15_StatusEdgesWithOverlap ==
    [][status' # status
         => /\ <<status, status'>> \in
                  C15_StatedEdges \cup {<<SUCCESS, ERROR>>, <<ERROR, SUCCESS>>}
            /\ status' = SUCCESS => ResolverSucceeds
            /\ status' = GEOCODING => FixDelivered
            /\ status' \notin {IDLE, LOCATING} \/ status = IDLE]_vars

\* a watcher error arrived after a success: status went from SUCCESS to
\* ERROR with nothing in flight
C15_Witness ==
    /\ status = ERROR
    /\ error = Some(MsgTimeout)
    /\ town # NULL
    /\ inflight = {}
    /\ Len(issued) = 1

\* C16: a fix accepted while a request is pending adds a second request in
\* flight, and whichever request settles, also one older than the last
\* issued, writes status, town and error by its own outcome and leaves the
\* last accepted coordinate alone; so the values left when nothing is in
\* flight are those of the request that settled last, whatever its rank.
C16_LastSettlementWins ==
    /\ [][(FixDelivered /\ inflight # {} /\ Len(issued') = Len(issued) + 1)
            => /\ inflight \subseteq inflight'
               /\ Cardinality(inflight') = Cardinality(inflight) + 1]_vars
    /\ [][\A req \in inflight, outcome \in Outcomes :
            (pc # "unmounted" /\ Settle(req, outcome))
              => /\ lastSettled' = req.id
                 /\ lastPosition' = lastPosition
                 /\ outcome.ok => /\ status' = SUCCESS
                                  /\ town' = Some(outcome.name)
                                  /\ error' = NULL
                 /\ ~outcome.ok => /\ status' = ERROR
                                   /\ error' = Some(MsgLookupFailed)
                                   /\ town' = town]_vars

\* nothing is in flight, the first of two requests settled last, with a
\* name, and the last accepted coordinate is that of the second request
C16_Witness ==
    /\ pc = "watching"
    /\ inflight = {}
    /\ Len(issued) = 2
    /\ lastSettled = 1
    /\ status = SUCCESS
    /\ town = Some(<<"L">>)
    /\ lastPosition = Some([lat |-> issued[2].lat, lon |-> issued[2].lon])
    /\ <<issued[1].lat, issued[1].lon>> # <<issued[2].lat, issued[2].lon>>

\* C17: a town resolved by getTownFromCoordinates is never the empty
\* string and holds no backtick and no asterisk (a response that is empty
\* once cleaned is rejected instead).
C17_ResolvedNameNotEmpty ==
    town # NULL
      => /\ Val(town) # <<>>
         /\ \A i \in DOMAIN Val(town) : Val(town)[i] \notin {BACKTICK, STAR}

\* C18: before the teardown, status = GEOCODING implies that a request is
\* in flight, the one issued last.
C18_GeocodingHasRequest ==
    (pc # "unmounted" /\ status = GEOCODING)
      => /\ inflight # {}
         /\ issued # <<>>
         /\ issued[Len(issued)] \in inflight

\* status is GEOCODING for the second request after the first has settled
C18_Witness ==
    /\ pc = "watching"
    /\ status = GEOCODING
    /\ Len(issued) = 2
    /\ inflight = {issued[2]}
    /\ lastSettled = 1

\* the converse of C18 fails: a request is in flight and status is SUCCESS
C18_RequestWithoutGeocoding ==
    /\ pc = "watching"
    /\ inflight # {}
    /\ status = SUCCESS

\* C19: status = ERROR implies error is set; status = SUCCESS implies error
\* is null and town is set; status IDLE or LOCATING implies town and error
\* are null; and town, once set, is never null again.
C19_StatusFieldsConsistent ==
    /\ [](/\ status = ERROR => error # NULL
          /\ status = SUCCESS => (error = NULL /\ town # NULL)
          /\ status \in {IDLE, LOCATING} => (town = NULL /\ error = NULL))
    /\ [][town # NULL => town' # NULL]_vars

\* a fix was accepted after a success and a watcher error: status is
\* GEOCODING with both town and error set
C19_Witness ==
    /\ status = GEOCODING
    /\ town # NULL
    /\ error # NULL
    /\ Len(issued) >= 2

====
